---- MODULE Spec2Model ----
(***************************************************************************)
(* Popcorn GPS collar gateway: the telemetry, walk-start and walk-end      *)
(* handlers of the three gateway builds of the repository                  *)
(*   part_001  (V6.0, nested payload, anomaly dedup, walk start/end)       *)
(*   part_000  (V6.1 anti-cheat, flat payload, walk end only)              *)
(*   index     (src/index.js, status upsert only)                          *)
(* run against one external record store.  A deployment runs one build;    *)
(* the build, the shared key and whether the store client exists are       *)
(* chosen in Init.  Every await of a handler is one step: the store        *)
(* executes the call atomically and the handler's continuation runs up to  *)
(* the next await (or to the response).  Requests interleave between       *)
(* steps, as they do on the node.js event loop.                            *)
(***************************************************************************)
EXTENDS Integers, Sequences, FiniteSets, TLC

VARIABLES
    variant,        \* which build is deployed
    HMAC_KEY,       \* bytes of process.env.HMAC_KEY, <<>> when not configured
    supabase,       \* TRUE when the store client was created
    now,            \* the clock (ticks); shared by gateway and store
    device_status,  \* table, unique on device_id
    locations,      \* table, append only
    scratch_events, \* table, append only
    scratch_daily,  \* table, unique on (device_id, date)
    anomaly_log,    \* table, append only
    walk_sessions,  \* table, id = position
    kind,           \* per request slot: which route
    payload,        \* per request slot: req.body and req.params
    pc,             \* per request slot: the await the handler is parked on
    local,          \* per request slot: the handler's local variables
    oplog,          \* per request slot: store calls made so far, in order
    errs,           \* per request slot: store calls that returned an error value
    answered,       \* the request answered last, with the status sent
    started,        \* number of requests received so far
    faults,         \* number of store calls that failed so far
    hist,           \* history flags: what has happened in this run so far
    call            \* the last call of a function examined on its own

vars == <<variant, HMAC_KEY, supabase, now, device_status, locations,
          scratch_events, scratch_daily, anomaly_log, walk_sessions,
          kind, payload, pc, local, oplog, errs, answered, started, faults, hist,
          call>>

config == <<variant, HMAC_KEY, supabase>>
tables == <<device_status, locations, scratch_events, scratch_daily,
            anomaly_log, walk_sessions>>

(***************************************************************************)
(* Bounds of the model.                                                    *)
(***************************************************************************)
MaxRequests == 2        \* telemetry requests received in one run
MaxWalkRequests == 3    \* requests received in one run of the walk routes
MaxFaults == 1          \* store calls that fail in one run
MaxNow == 2             \* last clock tick
MaxMessageLen == 2      \* bytes of a message given to verifyHMAC
MaxKeyLen == 2          \* bytes of a key given to verifyHMAC
MaxScore == 100         \* highest score given to the grading
MaxSeconds == 2         \* longest of the short durations given to walk end
MaxCheatFlags == 16     \* highest cheat bitmask given to walk end
TicksPerDay == 2        \* clock ticks in one calendar day (UTC)

Slots == {1, 2}         \* requests that can be in flight together
Devices == {"d1", "d2"}
Variants == {"part_001", "part_000", "index"}

(***************************************************************************)
(* Values.  A nullable value is <<>> (null / undefined) or <<v>>.          *)
(***************************************************************************)
NULL == "null"
None == <<>>
Some(v) == <<v>>

\* JavaScript truthiness of a nullable number: null, undefined and 0 are falsy.
Truthy(o) == o # None /\ o[1] # 0

\* x || null
OrNull(o) == IF Truthy(o) THEN o ELSE None

\* x || 0
OrZero(o) == IF Truthy(o) THEN o ELSE Some(0)

\* new Date().toISOString().split('T')[0]: the calendar day (UTC) of a time.
DateOf(t) == t \div TicksPerDay

\* The first instant of a calendar day: what the store compares a timestamp
\* column with when it is given a bare date.
DayStart(d) == d * TicksPerDay

(***************************************************************************)
(* Signature: djb2 over the message bytes, then the key bytes.  A 32-bit   *)
(* pattern is kept as two 16-bit words <<hi, lo>>, so that no intermediate *)
(* value leaves the range of 32-bit signed integers.                       *)
(***************************************************************************)
Word == 256 * 256

\* A shift that drops the bits carried out of the low half.
Shl5_NoCarry(h) == <<(h[1] * 32) % Word, (h[2] * 32) % Word>>

\* hash << 5: the low 32 bits of 32 * hash.
Shl5(h) ==
    LET lo == h[2] * 32
    IN  <<(h[1] * 32 + lo \div Word) % Word, lo % Word>>

\* a + b + c, reduced to 32 bits (c is one character code).
Add32(a, b, c) ==
    LET lo == a[2] + b[2] + c
    IN  <<(a[1] + b[1] + lo \div Word) % Word, lo % Word>>

\* The signed 32-bit integer with bit pattern h (x & 0xFFFFFFFF, x | 0).
ToInt32(h) == IF h[1] >= 32768 THEN (h[1] - Word) * Word + h[2] ELSE h[1] * Word + h[2]

\* The bit pattern of a signed 32-bit integer (x >>> 0).
ToUint32(x) == <<(x \div Word) % Word, x % Word>>

\* part_001 lines 77-78: hash = ((hash << 5) + hash) + c; hash = hash >>> 0.
\* hash is an unsigned 32-bit value, kept as its pattern.
Djb2Step(hash, c) == Add32(Shl5(hash), hash, c)

\* part_000 lines 29-30: hash = ((hash << 5) + hash) + c; hash = hash & 0xFFFFFFFF.
\* hash is a signed 32-bit value.
Djb2StepSigned(hash, c) == ToInt32(Add32(Shl5(ToUint32(hash)), ToUint32(hash), c))

\* part_001 lines 76-79 and 82-85: for (let i = ...; i < bytes.length; i++)
\* { hash = ...; hash = hash >>> 0 }.  Each pass binds the new value of hash.
RECURSIVE Djb2(_, _, _)
Djb2(hash, bytes, i) ==
    IF i > Len(bytes) THEN hash
    ELSE CHOOSE r \in {Djb2(h, bytes, i + 1) : h \in {Djb2Step(hash, bytes[i])}} : TRUE

\* part_000 lines 28-31: the same loop with hash = hash & 0xFFFFFFFF.
RECURSIVE Djb2Signed(_, _, _)
Djb2Signed(hash, bytes, i) ==
    IF i > Len(bytes) THEN hash
    ELSE CHOOSE r \in {Djb2Signed(h, bytes, i + 1) :
                          h \in {Djb2StepSigned(hash, bytes[i])}} : TRUE

\* (x >>> 0).toString(16).padStart(8, '0'): eight hexadecimal digits.
Hex8(h) ==
    <<h[1] \div 4096, (h[1] \div 256) % 16, (h[1] \div 16) % 16, h[1] % 16,
      h[2] \div 4096, (h[2] \div 256) % 16, (h[2] \div 16) % 16, h[2] % 16>>

KeyBytes == <<107, 49>>                       \* "k1"

DeviceByte(d) == IF d = "d1" THEN 49 ELSE IF d = "d2" THEN 50 ELSE 110

\* part_001 line 72: JSON.stringify of the payload without its signature
\* field; the model's serialisation keeps the bytes that tell the model's
\* reports apart.
DataString(p) ==
    <<DeviceByte(p.device_id),
      IF p.gps.valid THEN 116 ELSE 102,
      IF p.scratch.detected THEN 116 ELSE 102,
      IF p.health.anomaly THEN 116 ELSE 102,
      IF p.walk.stops = None THEN 110 ELSE 48 + p.walk.stops[1]>>

\* part_000 line 25: `${device_id}:${timestamp}:${boot_count}`
Message(p) == <<DeviceByte(p.device_id), 58, 58>>

\* part_001 lines 75-87: the checksum of a payload under a key, an unsigned
\* 32-bit integer.
Checksum001(bytes, key) == Djb2(Djb2(<<0, 5381>>, bytes, 1), key, 1)

CalculatedSignature(p, key) == Checksum001(DataString(p), key)

\* part_000 lines 26-32: the same over message + key as one string, in hex.
Checksum000(bytes, key) == Hex8(ToUint32(Djb2Signed(5381, bytes \o key, 1)))

Expected(p, key) == Checksum000(Message(p), key)

\* !providedSignature for the integer the firmware sends: absent, or 0.
NoSignature(o) == o = None \/ o[1] = <<0, 0>>

\* verifyHMAC without the early return for a missing key.
Verify001_KeyRequired(bytes, key, provided) ==
    IF NoSignature(provided) THEN FALSE
    ELSE Checksum001(bytes, key) = provided[1]

\* part_001 lines 57-97: verifyHMAC on the bytes of dataString.
Verify001(bytes, key, provided) ==
    IF key = <<>> THEN TRUE
    ELSE IF NoSignature(provided) THEN FALSE
    ELSE Checksum001(bytes, key) = provided[1]

\* part_000 lines 22-34: verifyHMAC on the bytes of message.
Verify000(bytes, key, provided) ==
    IF key = <<>> THEN TRUE
    ELSE provided # None /\ Checksum000(bytes, key) = provided[1]

\* part_001 lines 57-97: verifyHMAC(payload, payload.signature)
verifyHMAC_001(p, key) == Verify001(DataString(p), key, p.signature)

\* part_000 lines 22-34: verifyHMAC(data, data.signature)
verifyHMAC_000(p, key) == Verify000(Message(p), key, p.signature)

\* GET /health: part_001 lines 103-112; part_000 lines 37-46.
Health(key, db) ==
    [supabase |-> IF db THEN "configured" ELSE "missing",
     hmac |-> IF key # <<>> THEN "configured" ELSE "disabled"]

\* The signature check of POST /telemetry: TRUE when the report is let through.
\* part_001 lines 146-149; part_000 lines 58-63 (only a report that carries a
\* signature is verified); index.js verifies nothing.
SignatureAccepted(v, p, key) ==
    CASE v = "part_001" -> verifyHMAC_001(p, key)
      [] v = "part_000" -> IF key # <<>> /\ p.signature # None
                           THEN verifyHMAC_000(p, key) ELSE TRUE
      [] OTHER -> TRUE

\* The signature a device holding the key puts in its report.
DeviceSignature(v, p, key) ==
    IF v = "part_000" THEN Expected(p, key) ELSE CalculatedSignature(p, key)

\* The same with its last bit flipped: a signature that does not match.
WrongSignature(s) ==
    [s EXCEPT ![Len(s)] = IF s[Len(s)] % 2 = 0 THEN s[Len(s)] + 1 ELSE s[Len(s)] - 1]

(***************************************************************************)
(* Requests.  One record shape serves the three routes; a route reads only *)
(* its own fields.  The nested names are part_001's; part_000 and index.js *)
(* read the same values from a flat body (data.latitude for gps.lat, ...). *)
(***************************************************************************)
GpsFixes ==
    { [valid |-> FALSE, lat |-> None, lon |-> None],
      [valid |-> TRUE, lat |-> Some(12), lon |-> Some(77)] }

Scratches ==
    { [detected |-> FALSE, today_count |-> None, frequency |-> None],
      [detected |-> TRUE, today_count |-> Some(3), frequency |-> Some(4)] }

Healths ==
    { [anomaly |-> FALSE, anomaly_type |-> NULL],
      [anomaly |-> TRUE, anomaly_type |-> "low_activity"] }

WalkCounters ==
    { [duration |-> None, distance |-> None, stops |-> None],
      [duration |-> Some(800), distance |-> Some(600), stops |-> Some(2)] }

NoWalkData ==
    [quality_score |-> None, duration_seconds |-> None,
     distance_meters |-> None, stop_count |-> None]

WalkDatas ==
    { [quality_score |-> Some(95), duration_seconds |-> Some(800),
       distance_meters |-> Some(600), stop_count |-> Some(2)] }

WalkIds == {1, 2}

NoGps == [valid |-> FALSE, lat |-> None, lon |-> None]
NoScratch == [detected |-> FALSE, today_count |-> None, frequency |-> None]
NoHealth == [anomaly |-> FALSE, anomaly_type |-> NULL]
NoWalk == [duration |-> None, distance |-> None, stops |-> None]

Body(d, g, s, h, w) ==
    [device_id |-> d, signature |-> None, gps |-> g, scratch |-> s,
     health |-> h, walk |-> w, walk_id |-> 0, walkData |-> NoWalkData]

Fix == [valid |-> TRUE, lat |-> Some(12), lon |-> Some(77)]
Scratch == [detected |-> TRUE, today_count |-> Some(3), frequency |-> Some(4)]
Anomaly == [anomaly |-> TRUE, anomaly_type |-> "low_activity"]
Walked == [duration |-> Some(800), distance |-> Some(600), stops |-> Some(2)]
Dawdled == [duration |-> Some(1000), distance |-> Some(400), stops |-> Some(30)]

\* The telemetry bodies of requests served alone, before the device signs
\* them: a report without device id, a bare report, and a report that
\* carries everything.
TelemetryBodies ==
    { Body(NULL, NoGps, NoScratch, NoHealth, NoWalk),
      Body("d1", NoGps, NoScratch, NoHealth, NoWalk),
      Body("d1", Fix, Scratch, Anomaly, Walked) }

\* The telemetry that arrives while walks are started and ended: reports
\* with a position and walk counters, of a short walk and of a walk with
\* thirty stops.
WalkBodies ==
    { Body("d1", [valid |-> FALSE, lat |-> Some(12), lon |-> Some(77)],
           NoScratch, NoHealth, Walked),
      Body("d1", [valid |-> FALSE, lat |-> Some(12), lon |-> Some(77)],
           NoScratch, NoHealth, Dawdled) }

\* The bodies of requests that run concurrently: a bare report of either
\* device and a report of an anomaly.
ConcurrentBodies ==
    { Body("d1", NoGps, NoScratch, NoHealth, NoWalk),
      Body("d2", NoGps, NoScratch, NoHealth, NoWalk),
      Body("d1", NoGps, NoScratch, Anomaly, NoWalk) }

\* What arrives in the signature field: nothing, the device's signature, or
\* a signature that does not match.  To a gateway without a key every
\* signature is alike, and one stands for all.
Signatures(v, b, key) ==
    IF key = <<>>
    THEN {None, Some(DeviceSignature(v, b, KeyBytes))}
    ELSE LET good == DeviceSignature(v, b, key)
         IN  {None, Some(good), Some(WrongSignature(good))}

WalkRequest(d, id, wd) ==
    [device_id |-> d, signature |-> None,
     gps |-> [valid |-> FALSE, lat |-> None, lon |-> None],
     scratch |-> [detected |-> FALSE, today_count |-> None, frequency |-> None],
     health |-> [anomaly |-> FALSE, anomaly_type |-> NULL],
     walk |-> [duration |-> None, distance |-> None, stops |-> None],
     walk_id |-> id, walkData |-> wd]

NoPayload == WalkRequest(NULL, 0, NoWalkData)

\* The handler's locals that live across awaits.
\*   existing: result of the anomaly lookup, None = null, Some(n) = n rows
\*   status:   the device_status row read by walk start / walk end
\*   walk:     the walk_sessions row read by walk end
\*   data:     the id of the row walk start inserted (data.id)
NoLocal == [existing |-> None, status |-> None, walk |-> None, data |-> None]

(***************************************************************************)
(* The handlers, as the order of their statements.  A step is a check that *)
(* can answer the request at once, or a store call the handler awaits.     *)
(***************************************************************************)
Routes == {"telemetry", "walk_start", "walk_end"}

\* Which routes a build serves.
Serves(v, k) ==
    CASE v = "part_001" -> TRUE
      [] v = "part_000" -> k \in {"telemetry", "walk_end"}
      [] OTHER -> k = "telemetry"

\* The handler with the signature verified only after the status upsert.
Telemetry001_VerifyAfterUpsert ==
    <<"validate", "status_upsert", "verify", "location_insert", "scratch_insert",
      "scratch_daily_upsert", "anomaly_lookup", "anomaly_insert">>

\* The handler with the scratch writes ahead of the location insert.
Telemetry001_ScratchBeforeLocation ==
    <<"validate", "verify", "status_upsert", "scratch_insert",
      "scratch_daily_upsert", "location_insert", "anomaly_lookup", "anomaly_insert">>

\* part_001 lines 136-307
Telemetry001 ==
    <<"validate", "verify", "status_upsert", "location_insert", "scratch_insert",
      "scratch_daily_upsert", "anomaly_lookup", "anomaly_insert">>

\* The handler with the signature verified ahead of the device-id check.
Telemetry000_VerifyBeforeValidate ==
    <<"verify", "validate", "configured", "status_upsert", "location_insert",
      "scratch_insert", "anomaly_insert">>

\* part_000 lines 49-161
Telemetry000 ==
    <<"validate", "verify", "configured", "status_upsert", "location_insert",
      "scratch_insert", "anomaly_insert">>

\* src/index.js lines 31-51
TelemetryIndex == <<"validate", "configured", "status_upsert">>

\* part_001 lines 506-537
WalkStart001 == <<"walk_start_status", "walk_start_insert">>

\* part_001 lines 545-610
WalkEnd001 == <<"walk_end_status", "walk_end_select", "walk_found", "walk_end_update">>

\* part_000 lines 170-230
WalkEnd000 == <<"configured", "walk_started_at", "walk_end_insert">>

Handler(v, k) ==
    CASE v = "part_001" /\ k = "telemetry" -> Telemetry001
      [] v = "part_001" /\ k = "walk_start" -> WalkStart001
      [] v = "part_001" /\ k = "walk_end" -> WalkEnd001
      [] v = "part_000" /\ k = "telemetry" -> Telemetry000
      [] v = "part_000" /\ k = "walk_end" -> WalkEnd000
      [] OTHER -> TelemetryIndex

Checks == {"validate", "verify", "configured", "walk_found", "walk_started_at"}

\* The steps that write to the store.
Writes ==
    {"status_upsert", "location_insert", "scratch_insert", "scratch_daily_upsert",
     "anomaly_insert", "walk_start_insert", "walk_end_update", "walk_end_insert"}

\* The status a check answers with, 0 when it lets the request go on.
Check(step, v, key, db, p, loc) ==
    CASE step = "validate" -> IF p.device_id = NULL THEN 400 ELSE 0
      [] step = "verify" -> IF SignatureAccepted(v, p, key) THEN 0 ELSE 401
      [] step = "configured" -> IF db THEN 0 ELSE 500
      [] step = "walk_found" -> IF loc.walk = None THEN 404 ELSE 0
      \* part_000 line 203: new Date(NaN).toISOString() throws
      [] step = "walk_started_at" ->
            IF p.walkData.duration_seconds = None THEN 500 ELSE 0
      [] OTHER -> 0

\* The conditions of a handler that inserts the anomaly only after a lookup
\* that returned an empty result set.
Applies_OnlyAfterEmptyLookup(step, v, p, loc) ==
    CASE step = "location_insert" ->
            p.gps.valid /\ Truthy(p.gps.lat) /\ Truthy(p.gps.lon)
      [] step \in {"scratch_insert", "scratch_daily_upsert"} -> p.scratch.detected
      [] step = "anomaly_lookup" -> p.health.anomaly
      [] step = "anomaly_insert" ->
            IF v = "part_001"
            THEN p.health.anomaly /\ loc.existing = Some(0)
            ELSE p.health.anomaly /\ p.health.anomaly_type # NULL
      [] OTHER -> TRUE

\* The condition under which a store call is made.
Applies(step, v, p, loc) ==
    CASE step = "location_insert" ->
            p.gps.valid /\ Truthy(p.gps.lat) /\ Truthy(p.gps.lon)
      [] step \in {"scratch_insert", "scratch_daily_upsert"} -> p.scratch.detected
      [] step = "anomaly_lookup" -> p.health.anomaly
      [] step = "anomaly_insert" ->
            IF v = "part_001"
            THEN p.health.anomaly /\ (loc.existing = None \/ loc.existing = Some(0))
            ELSE p.health.anomaly /\ p.health.anomaly_type # NULL
      [] OTHER -> TRUE

\* A handler that also answers 500 when the status upsert returns an error.
Fatal_StatusUpsert(step) ==
    step \in {"status_upsert", "walk_start_insert", "walk_end_update", "walk_end_insert"}

\* A handler that also answers 500 when the scratch-event insert returns an
\* error.
Fatal_ScratchInsert(step) ==
    step \in {"scratch_insert", "walk_start_insert", "walk_end_update", "walk_end_insert"}

\* A store call whose error value the handler answers with 500.
Fatal(step) == step \in {"walk_start_insert", "walk_end_update", "walk_end_insert"}

IndexOf(seq, x) == CHOOSE i \in 1..Len(seq) : seq[i] = x

\* A handler whose last statement is not a response: a request that gets
\* through every step is left unanswered.
RECURSIVE Run_NoFinalResponse(_, _, _, _, _, _, _)
Run_NoFinalResponse(v, k, key, db, p, loc, i) ==
    LET h == Handler(v, k)
    IN  IF i > Len(h) THEN [pc |-> "unanswered", code |-> 0]
        ELSE IF h[i] \in Checks
        THEN LET c == Check(h[i], v, key, db, p, loc)
             IN  IF c # 0 THEN [pc |-> "done", code |-> c]
                 ELSE Run_NoFinalResponse(v, k, key, db, p, loc, i + 1)
        ELSE IF Applies(h[i], v, p, loc) THEN [pc |-> h[i], code |-> 0]
        ELSE Run_NoFinalResponse(v, k, key, db, p, loc, i + 1)

\* Run the handler from statement i to its next await or to its response:
\* [pc |-> the store call awaited or "done", code |-> the status sent or 0].
RECURSIVE Run(_, _, _, _, _, _, _)
Run(v, k, key, db, p, loc, i) ==
    LET h == Handler(v, k)
    IN  IF i > Len(h) THEN [pc |-> "done", code |-> 200]
        ELSE IF h[i] \in Checks
        THEN LET c == Check(h[i], v, key, db, p, loc)
             IN  IF c # 0 THEN [pc |-> "done", code |-> c]
                 ELSE Run(v, k, key, db, p, loc, i + 1)
        ELSE IF Applies(h[i], v, p, loc) THEN [pc |-> h[i], code |-> 0]
        ELSE Run(v, k, key, db, p, loc, i + 1)

(***************************************************************************)
(* The store.  An upsert writes the columns it is given: it replaces them  *)
(* in the row that has the same key, or adds a row.                        *)
(***************************************************************************)
StatusColumns ==
    {"device_id", "latitude", "longitude", "walk_duration", "walk_distance",
     "walk_stops", "anomaly_detected"}

\* An upsert that forgets its conflict key: a plain insert.
Upsert_AsInsert(table, row, keys, cols) ==
    table \cup {[f \in DOMAIN row |-> IF f \in cols THEN row[f] ELSE None]}

\* An upsert with ignoreDuplicates: the row that holds the key stays.
Upsert_IgnoreDuplicates(table, row, keys, cols) ==
    IF \E o \in table : \A k \in keys : o[k] = row[k]
    THEN table
    ELSE table \cup {[f \in DOMAIN row |-> IF f \in cols THEN row[f] ELSE None]}

\* An upsert that adds the reported total to the stored one.
Upsert_Accumulating(table, row, keys, cols) ==
    LET old == {o \in table : \A k \in keys : o[k] = row[k]}
        fresh == [f \in DOMAIN row |-> IF f \in cols THEN row[f] ELSE None]
        summed(o) == [f \in DOMAIN row |->
                        IF f = "total_count" THEN Some(OrZero(o[f])[1] + OrZero(row[f])[1])
                        ELSE IF f \in cols THEN row[f] ELSE o[f]]
    IN  IF old = {} THEN table \cup {fresh}
        ELSE (table \ old) \cup {summed(o) : o \in old}

\* upsert(row, { onConflict: keys }) of the columns cols.
Upsert(table, row, keys, cols) ==
    LET same(o) == \A k \in keys : o[k] = row[k]
        old == {o \in table : same(o)}
        fresh == [f \in DOMAIN row |-> IF f \in cols THEN row[f] ELSE None]
        merged(o) == [f \in DOMAIN row |-> IF f \in cols THEN row[f] ELSE o[f]]
    IN  IF old = {} THEN table \cup {fresh}
        ELSE (table \ old) \cup {merged(o) : o \in old}

\* .select(...).eq('device_id', d).single(): the row, or null.
StatusOf(table, d) ==
    IF \E o \in table : o.device_id = d
    THEN Some(CHOOSE o \in table : o.device_id = d)
    ELSE None

\* The record POST /telemetry upserts into device_status.
\* part_001 lines 155-219; part_000 lines 72-119; index.js lines 41-48.
StatusUpdate(v, p) ==
    IF v = "part_001"
    THEN [device_id |-> p.device_id,
          latitude |-> OrNull(p.gps.lat), longitude |-> OrNull(p.gps.lon),
          walk_duration |-> OrZero(p.walk.duration),
          walk_distance |-> OrZero(p.walk.distance),
          walk_stops |-> OrZero(p.walk.stops),
          anomaly_detected |-> Some(p.health.anomaly)]
    ELSE [device_id |-> p.device_id,
          latitude |-> p.gps.lat, longitude |-> p.gps.lon,
          walk_duration |-> p.walk.duration,
          walk_distance |-> p.walk.distance,
          walk_stops |-> p.walk.stops,
          anomaly_detected |-> Some(p.health.anomaly)]

\* The columns the build's upsert names.
StatusWritten(v) ==
    IF v = "index" THEN {"device_id", "latitude", "longitude"} ELSE StatusColumns

\* part_001 lines 234-245; part_000 lines 128-139
LocationRecord(p) ==
    [device_id |-> p.device_id, latitude |-> p.gps.lat, longitude |-> p.gps.lon]

\* part_001 lines 256-262; part_000 lines 144-148
ScratchEvent(p) == [device_id |-> p.device_id, frequency_hz |-> p.scratch.frequency]

\* part_001 lines 272-277
ScratchDaily(p, today) ==
    [device_id |-> p.device_id, date |-> today,
     total_count |-> p.scratch.today_count, max_frequency |-> p.scratch.frequency]

\* part_001 lines 284-290: the rows the dedup lookup returns (limit 1).
Existing(log, p, today) ==
    IF \E i \in 1..Len(log) :
          /\ log[i].device_id = p.device_id
          /\ log[i].anomaly_type = p.health.anomaly_type
          /\ log[i].detected_at >= DayStart(today)
    THEN 1 ELSE 0

\* An insert under a unique index on (device, anomaly type, day): a row
\* whose key is taken is dropped.
Insert_UnlessLogged(table, row) ==
    IF \E i \in 1..Len(table) :
          /\ table[i].device_id = row.device_id
          /\ table[i].anomaly_type = row.anomaly_type
          /\ DateOf(table[i].detected_at) = DateOf(row.detected_at)
    THEN table
    ELSE Append(table, row)

\* .insert(row): the table with the row added, whatever it holds.
Insert(table, row) == Append(table, row)

\* part_001 lines 295-299; part_000 lines 153-158.  detected_at is the
\* store's default: the time of the insert.
AnomalyLogEntry(p, t) ==
    [device_id |-> p.device_id, anomaly_type |-> p.health.anomaly_type,
     detected_at |-> t]

(***************************************************************************)
(* Walk grading.                                                           *)
(***************************************************************************)
Max(a, b) == IF a >= b THEN a ELSE b
Min(a, b) == IF a <= b THEN a ELSE b

\* status?.walk_duration || 0
Counter(status, f) == IF status = None THEN 0 ELSE OrZero(status[1][f])[1]

\* status?.latitude
Field(status, f) == IF status = None THEN None ELSE status[1][f]

\* The penalties without the clamp.
GradeScore_Unclamped(duration, distance, stops) ==
    100 - stops * 5 - (IF duration < 900 THEN 20 ELSE 0)
        - (IF distance < 500 THEN 15 ELSE 0)

\* part_001 lines 573-577
GradeScore(duration, distance, stops) ==
    LET a == 100 - stops * 5
        b == IF duration < 900 THEN a - 20 ELSE a
        c == IF distance < 500 THEN b - 15 ELSE b
    IN  Max(0, Min(100, c))

\* The overwrites with <= at each threshold: a score of 90 is a B.
Grade001_Inclusive(gradeScore) ==
    LET g1 == IF gradeScore <= 90 THEN "B" ELSE "A"
        g2 == IF gradeScore <= 70 THEN "C" ELSE g1
    IN  IF gradeScore <= 50 THEN "F" ELSE g2

\* part_001 lines 579-582
Grade001(gradeScore) ==
    LET g1 == IF gradeScore < 90 THEN "B" ELSE "A"
        g2 == IF gradeScore < 70 THEN "C" ELSE g1
    IN  IF gradeScore < 50 THEN "F" ELSE g2

\* part_000 lines 180-184
Grade000(score) ==
    IF score >= 90 THEN "A" ELSE IF score >= 70 THEN "B"
    ELSE IF score >= 50 THEN "C" ELSE "F"

\* A walk start that stores no position.
NewWalk_NoPosition(d, status, t) ==
    [device_id |-> d, started_at |-> Some(t),
     start_lat |-> None, start_lon |-> None,
     ended_at |-> None, duration_seconds |-> None, distance_meters |-> None,
     end_lat |-> None, end_lon |-> None, stop_count |-> None,
     grade |-> NULL, grade_score |-> None]

\* part_001 lines 520-525: the session walk start inserts.
NewWalk(d, status, t) ==
    [device_id |-> d, started_at |-> Some(t),
     start_lat |-> Field(status, "latitude"), start_lon |-> Field(status, "longitude"),
     ended_at |-> None, duration_seconds |-> None, distance_meters |-> None,
     end_lat |-> None, end_lon |-> None, stop_count |-> None,
     grade |-> NULL, grade_score |-> None]

\* part_001 lines 569-596: the session as walk end updates it.
EndedWalk(w, status, t) ==
    LET duration == Counter(status, "walk_duration")
        distance == Counter(status, "walk_distance")
        stops == Counter(status, "walk_stops")
        gradeScore == GradeScore(duration, distance, stops)
    IN  [w EXCEPT !.ended_at = Some(t),
                  !.duration_seconds = Some(duration),
                  !.distance_meters = Some(distance),
                  !.end_lat = Field(status, "latitude"),
                  !.end_lon = Field(status, "longitude"),
                  !.stop_count = Some(stops),
                  !.grade = Grade001(gradeScore),
                  !.grade_score = Some(gradeScore)]

\* part_000 lines 180-220: the session walk end inserts from the request body.
\* started_at is walkData.started_at || now - duration; the body of the model
\* carries no started_at, and a walk is shorter than one clock tick.
SynthesizedWalk(d, wd, t) ==
    LET score == OrZero(wd.quality_score)[1]
    IN  [device_id |-> d,
         started_at |-> Some(t),
         start_lat |-> None, start_lon |-> None,
         ended_at |-> Some(t), duration_seconds |-> wd.duration_seconds,
         distance_meters |-> wd.distance_meters,
         end_lat |-> None, end_lon |-> None, stop_count |-> wd.stop_count,
         grade |-> Grade000(score), grade_score |-> Some(score)]

(***************************************************************************)
(* State machine.                                                          *)
(***************************************************************************)
\* What a store call can do: return data, return an error value, or reject
\* (the await throws and the handler's catch answers 500).
Outcomes == {"ok", "error", "throw"}

Active(r) == pc[r] # "idle"

\* The record of an answered request: what was asked, the status sent, the
\* store calls the handler made and those that returned an error value, and
\* whether a store call threw.
Answer(k, p, code, loc, ops, es, thrown) ==
    [kind |-> k, payload |-> p, code |-> code, local |-> loc, oplog |-> ops,
     errs |-> es, threw |-> thrown]

\* No function has been called on its own.
NoCall == [fn |-> "none", args |-> <<>>, result |-> <<>>]

\* An empty store and no request, at time 0.
Started ==
    /\ now = 0
    /\ device_status = {}
    /\ locations = <<>>
    /\ scratch_events = <<>>
    /\ scratch_daily = {}
    /\ anomaly_log = <<>>
    /\ walk_sessions = <<>>
    /\ kind = [r \in Slots |-> "telemetry"]
    /\ payload = [r \in Slots |-> NoPayload]
    /\ pc = [r \in Slots |-> "idle"]
    /\ local = [r \in Slots |-> NoLocal]
    /\ oplog = [r \in Slots |-> <<>>]
    /\ errs = [r \in Slots |-> {}]
    /\ answered = Answer("telemetry", NoPayload, 0, NoLocal, <<>>, {}, FALSE)
    /\ started = 0
    /\ faults = 0
    /\ hist = [overlap |-> FALSE, lookupFailed |-> FALSE, upserted |-> {}]
    /\ call = NoCall

Init ==
    /\ variant \in Variants
    /\ HMAC_KEY \in {<<>>, KeyBytes}
    \* part_001 lines 30-34: the process exits when the store is not
    \* configured; part_000 and index.js start without a client.
    /\ supabase \in (IF variant = "part_001" THEN {TRUE} ELSE BOOLEAN)
    /\ Started

\* A slot is free for a new request; a free slot is taken only when every
\* lower slot is busy (which slot serves a request does not matter).
Free(r, max) ==
    /\ started < max
    /\ ~Active(r)
    /\ \A q \in Slots : q < r => Active(q)

\* Request r of route k, with body p, locals loc, store calls ops and errors
\* es, goes on from `next`: it parks on its next await, or it is answered and
\* its slot is free again.
Proceed(r, k, p, loc, ops, es, thrown, next) ==
    IF next.pc = "done"
    THEN /\ answered' = Answer(k, p, next.code, loc, ops, es, thrown)
         /\ pc' = [pc EXCEPT ![r] = "idle"]
         /\ kind' = [kind EXCEPT ![r] = "telemetry"]
         /\ payload' = [payload EXCEPT ![r] = NoPayload]
         /\ local' = [local EXCEPT ![r] = NoLocal]
         /\ oplog' = [oplog EXCEPT ![r] = <<>>]
         /\ errs' = [errs EXCEPT ![r] = {}]
    ELSE /\ answered' = answered
         /\ pc' = [pc EXCEPT ![r] = next.pc]
         /\ kind' = [kind EXCEPT ![r] = k]
         /\ payload' = [payload EXCEPT ![r] = p]
         /\ local' = [local EXCEPT ![r] = loc]
         /\ oplog' = [oplog EXCEPT ![r] = ops]
         /\ errs' = [errs EXCEPT ![r] = es]

\* A request arrives and its handler runs to its first await or response.
Receive(r, k, p) ==
    /\ Serves(variant, k)
    /\ Proceed(r, k, p, NoLocal, <<>>, {}, FALSE,
               Run(variant, k, HMAC_KEY, supabase, p, NoLocal, 1))
    /\ started' = started + 1
    /\ hist' = [hist EXCEPT !.overlap = @ \/ \E q \in Slots : q # r /\ Active(q)]
    /\ UNCHANGED <<config, now, tables, faults, call>>

\* No request is in flight: the next one is served alone.
Quiet(r, max) ==
    /\ started < max
    /\ \A q \in Slots : ~Active(q) /\ r <= q

\* POST /telemetry with one of the bodies, signed or not.
Telemetry(r, bodies) ==
    \E b \in bodies :
        \E s \in Signatures(variant, b, HMAC_KEY) :
            Receive(r, "telemetry", [b EXCEPT !.signature = s])

\* POST /telemetry, while other requests may be in flight.
ReceiveTelemetry(r) == Free(r, MaxRequests) /\ Telemetry(r, ConcurrentBodies)

\* POST /telemetry, served alone.
ReceiveTelemetryAlone(r) == Quiet(r, MaxRequests) /\ Telemetry(r, TelemetryBodies)

\* POST /telemetry between walk requests, from a device that signs its reports.
ReceiveWalkTelemetry(r) ==
    /\ Quiet(r, MaxWalkRequests)
    /\ \E b \in WalkBodies :
          Receive(r, "telemetry",
                  [b EXCEPT !.signature =
                      Some(DeviceSignature(variant, b,
                                           IF HMAC_KEY = <<>> THEN KeyBytes ELSE HMAC_KEY))])

\* POST /device/:deviceId/walk/start
ReceiveWalkStart(r) ==
    /\ Quiet(r, MaxWalkRequests)
    /\ \E d \in Devices : Receive(r, "walk_start", WalkRequest(d, 0, NoWalkData))

\* POST /device/:deviceId/walk/end
ReceiveWalkEnd(r) ==
    /\ Quiet(r, MaxWalkRequests)
    /\ \E d \in Devices, id \in WalkIds, wd \in WalkDatas :
          Receive(r, "walk_end",
                  WalkRequest(d, id, IF variant = "part_000" THEN wd ELSE NoWalkData))

\* The store call `step` of request r returned with outcome o and the
\* handler ran on, with locals loc, to its next await or its response.
Resume(r, step, o, loc) ==
    LET i == IndexOf(Handler(variant, kind[r]), step)
        next == IF o = "throw" \/ (o = "error" /\ Fatal(step))
                THEN [pc |-> "done", code |-> 500]
                ELSE Run(variant, kind[r], HMAC_KEY, supabase, payload[r], loc, i + 1)
    IN  /\ o # "ok" => faults < MaxFaults
        /\ faults' = IF o = "ok" THEN faults ELSE faults + 1
        /\ Proceed(r, kind[r], payload[r], loc, Append(oplog[r], step),
                   IF o = "error" THEN errs[r] \cup {step} ELSE errs[r],
                   o = "throw", next)
        /\ UNCHANGED <<config, now, started, call>>

StatusUpsert(r, o) ==
    /\ pc[r] = "status_upsert"
    /\ device_status' =
          IF o = "ok"
          THEN Upsert(device_status, StatusUpdate(variant, payload[r]),
                      {"device_id"}, StatusWritten(variant))
          ELSE device_status
    /\ hist' = [hist EXCEPT !.upserted =
                   IF o = "ok" THEN @ \cup {payload[r].device_id} ELSE @]
    /\ UNCHANGED <<locations, scratch_events, scratch_daily, anomaly_log, walk_sessions>>
    /\ Resume(r, "status_upsert", o, local[r])

LocationInsert(r, o) ==
    /\ pc[r] = "location_insert"
    /\ locations' =
          IF o = "ok" THEN Insert(locations, LocationRecord(payload[r])) ELSE locations
    /\ UNCHANGED <<device_status, scratch_events, scratch_daily, anomaly_log,
                   walk_sessions, hist>>
    /\ Resume(r, "location_insert", o, local[r])

ScratchInsert(r, o) ==
    /\ pc[r] = "scratch_insert"
    /\ scratch_events' =
          IF o = "ok" THEN Insert(scratch_events, ScratchEvent(payload[r]))
          ELSE scratch_events
    /\ UNCHANGED <<device_status, locations, scratch_daily, anomaly_log,
                   walk_sessions, hist>>
    /\ Resume(r, "scratch_insert", o, local[r])

ScratchDailyUpsert(r, o) ==
    /\ pc[r] = "scratch_daily_upsert"
    /\ scratch_daily' =
          IF o = "ok"
          THEN Upsert(scratch_daily, ScratchDaily(payload[r], DateOf(now)),
                      {"device_id", "date"},
                      {"device_id", "date", "total_count", "max_frequency"})
          ELSE scratch_daily
    /\ UNCHANGED <<device_status, locations, scratch_events, anomaly_log,
                   walk_sessions, hist>>
    /\ Resume(r, "scratch_daily_upsert", o, local[r])

AnomalyLookup(r, o) ==
    /\ pc[r] = "anomaly_lookup"
    /\ hist' = [hist EXCEPT !.lookupFailed = @ \/ o = "error"]
    /\ UNCHANGED tables
    /\ Resume(r, "anomaly_lookup", o,
              [local[r] EXCEPT !.existing =
                  IF o = "ok" THEN Some(Existing(anomaly_log, payload[r], DateOf(now)))
                  ELSE None])

AnomalyInsert(r, o) ==
    /\ pc[r] = "anomaly_insert"
    /\ anomaly_log' =
          IF o = "ok" THEN Insert(anomaly_log, AnomalyLogEntry(payload[r], now))
          ELSE anomaly_log
    /\ UNCHANGED <<device_status, locations, scratch_events, scratch_daily,
                   walk_sessions, hist>>
    /\ Resume(r, "anomaly_insert", o, local[r])

\* part_001 lines 511-515 and 551-555: read the device's status row.
WalkStatusSelect(r, o) ==
    /\ pc[r] \in {"walk_start_status", "walk_end_status"}
    /\ UNCHANGED <<tables, hist>>
    /\ Resume(r, pc[r], o,
              [local[r] EXCEPT !.status =
                  IF o = "ok" THEN StatusOf(device_status, payload[r].device_id)
                  ELSE None])

WalkStartInsert(r, o) ==
    /\ pc[r] = "walk_start_insert"
    /\ walk_sessions' =
          IF o = "ok"
          THEN Insert(walk_sessions, NewWalk(payload[r].device_id, local[r].status, now))
          ELSE walk_sessions
    /\ UNCHANGED <<device_status, locations, scratch_events, scratch_daily,
                   anomaly_log, hist>>
    /\ Resume(r, "walk_start_insert", o,
              [local[r] EXCEPT !.data =
                  IF o = "ok" THEN Some(Len(walk_sessions) + 1) ELSE None])

\* part_001 lines 558-562: .eq('id', walk_id).single()
WalkEndSelect(r, o) ==
    /\ pc[r] = "walk_end_select"
    /\ UNCHANGED <<tables, hist>>
    /\ Resume(r, "walk_end_select", o,
              [local[r] EXCEPT !.walk =
                  IF o = "ok" /\ payload[r].walk_id \in 1..Len(walk_sessions)
                  THEN Some(walk_sessions[payload[r].walk_id])
                  ELSE None])

\* part_001 lines 585-597: .update({...}).eq('id', walk_id)
WalkEndUpdate(r, o) ==
    /\ pc[r] = "walk_end_update"
    /\ walk_sessions' =
          IF o = "ok" /\ payload[r].walk_id \in 1..Len(walk_sessions)
          THEN [walk_sessions EXCEPT ![payload[r].walk_id] =
                   EndedWalk(@, local[r].status, now)]
          ELSE walk_sessions
    /\ UNCHANGED <<device_status, locations, scratch_events, scratch_daily,
                   anomaly_log, hist>>
    /\ Resume(r, "walk_end_update", o, local[r])

\* part_000 lines 199-223
WalkEndInsert(r, o) ==
    /\ pc[r] = "walk_end_insert"
    /\ walk_sessions' =
          IF o = "ok"
          THEN Insert(walk_sessions,
                      SynthesizedWalk(payload[r].device_id, payload[r].walkData, now))
          ELSE walk_sessions
    /\ UNCHANGED <<device_status, locations, scratch_events, scratch_daily,
                   anomaly_log, hist>>
    /\ Resume(r, "walk_end_insert", o, local[r])

\* Time passes.
Tick ==
    /\ now < MaxNow
    /\ now' = now + 1
    /\ UNCHANGED <<config, tables, kind, payload, pc, local, oplog, errs,
                   answered, started, faults, hist, call>>

\* Telemetry requests that interleave: the status upsert and the anomaly
\* dedup of every build.
Next ==
    \/ \E r \in Slots : ReceiveTelemetry(r)
    \/ \E r \in Slots, o \in Outcomes : StatusUpsert(r, o)
    \/ \E r \in Slots, o \in Outcomes : AnomalyLookup(r, o)
    \/ \E r \in Slots, o \in Outcomes : AnomalyInsert(r, o)
    \/ Tick

Spec == Init /\ [][Next]_vars

\* Telemetry requests served one after the other: the whole pipeline of
\* every build.
NextSerial ==
    \/ \E r \in Slots : ReceiveTelemetryAlone(r)
    \/ \E r \in Slots, o \in Outcomes : StatusUpsert(r, o)
    \/ \E r \in Slots, o \in Outcomes : LocationInsert(r, o)
    \/ \E r \in Slots, o \in Outcomes : ScratchInsert(r, o)
    \/ \E r \in Slots, o \in Outcomes : ScratchDailyUpsert(r, o)
    \/ \E r \in Slots, o \in Outcomes : AnomalyLookup(r, o)
    \/ \E r \in Slots, o \in Outcomes : AnomalyInsert(r, o)
    \/ Tick

SpecSerial == Init /\ [][NextSerial]_vars

\* The walk routes, with the telemetry that feeds them: requests served one
\* after the other.
NextWalk ==
    \/ \E r \in Slots : ReceiveWalkTelemetry(r)
    \/ \E r \in Slots : ReceiveWalkStart(r)
    \/ \E r \in Slots : ReceiveWalkEnd(r)
    \/ \E r \in Slots, o \in Outcomes : StatusUpsert(r, o)
    \/ \E r \in Slots, o \in Outcomes : WalkStatusSelect(r, o)
    \/ \E r \in Slots, o \in Outcomes : WalkStartInsert(r, o)
    \/ \E r \in Slots, o \in Outcomes : WalkEndSelect(r, o)
    \/ \E r \in Slots, o \in Outcomes : WalkEndUpdate(r, o)
    \/ \E r \in Slots, o \in Outcomes : WalkEndInsert(r, o)
    \/ Tick

\* Only part_001 and part_000 have walk routes; the walk routes read no key.
InitWalk == Init /\ variant # "index" /\ HMAC_KEY # <<>>

SpecWalk == InitWalk /\ [][NextWalk]_vars

\* A store call of a request in flight returns or throws.
Returns ==
    \E r \in Slots, o \in Outcomes :
        \/ StatusUpsert(r, o)
        \/ LocationInsert(r, o)
        \/ ScratchInsert(r, o)
        \/ ScratchDailyUpsert(r, o)
        \/ AnomalyLookup(r, o)
        \/ AnomalyInsert(r, o)
        \/ WalkStatusSelect(r, o)
        \/ WalkStartInsert(r, o)
        \/ WalkEndSelect(r, o)
        \/ WalkEndUpdate(r, o)
        \/ WalkEndInsert(r, o)

\* Requests of every route served one after the other, at one time of day,
\* MaxRequests of them in a run.
NextAnswer ==
    \/ \E r \in Slots : ReceiveTelemetryAlone(r)
    \/ \E r \in Slots : started < MaxRequests /\ ReceiveWalkStart(r)
    \/ \E r \in Slots : started < MaxRequests /\ ReceiveWalkEnd(r)
    \/ Returns

\* The gateway holds a key, so that a request can be turned away for its
\* signature as well as served.
InitAnswer == Init /\ HMAC_KEY # <<>>

\* Every store call that was made returns or throws in the end.
SpecAnswer == InitAnswer /\ [][NextAnswer]_vars /\ WF_vars(Returns)

\* A valid fix on the equator, a valid fix without latitude, a position whose
\* valid flag is not set, and a second scratch report of the day.
EquatorFix == [valid |-> TRUE, lat |-> Some(0), lon |-> Some(77)]
NoLatFix == [valid |-> TRUE, lat |-> None, lon |-> Some(77)]
StaleFix == [valid |-> FALSE, lat |-> Some(12), lon |-> Some(77)]
ScratchAgain == [detected |-> TRUE, today_count |-> Some(5), frequency |-> Some(2)]

\* The reports a device delivers, some of them more than once.
DeliveredBodies ==
    { Body("d1", Fix, Scratch, Anomaly, Walked),
      Body("d1", EquatorFix, NoScratch, NoHealth, NoWalk),
      Body("d1", StaleFix, ScratchAgain, NoHealth, NoWalk),
      Body("d2", NoLatFix, NoScratch, NoHealth, NoWalk) }

\* POST /telemetry with a report signed by the device, served alone.
ReceiveDelivery(r) ==
    /\ Quiet(r, MaxRequests)
    /\ \E b \in DeliveredBodies :
          Receive(r, "telemetry",
                  [b EXCEPT !.signature =
                      Some(DeviceSignature(variant, b,
                                           IF HMAC_KEY = <<>> THEN KeyBytes ELSE HMAC_KEY))])

\* Signed reports delivered one after the other to a build that stores
\* locations and scratch events, its store client configured.
NextDelivery ==
    \/ \E r \in Slots : ReceiveDelivery(r)
    \/ \E r \in Slots, o \in Outcomes : StatusUpsert(r, o)
    \/ \E r \in Slots, o \in Outcomes : LocationInsert(r, o)
    \/ \E r \in Slots, o \in Outcomes : ScratchInsert(r, o)
    \/ \E r \in Slots, o \in Outcomes : ScratchDailyUpsert(r, o)
    \/ \E r \in Slots, o \in Outcomes : AnomalyLookup(r, o)
    \/ \E r \in Slots, o \in Outcomes : AnomalyInsert(r, o)
    \/ Tick

InitDelivery == Init /\ variant # "index" /\ supabase

SpecDelivery == InitDelivery /\ [][NextDelivery]_vars

(***************************************************************************)
(* verifyHMAC and GET /health on their own: the build and the key are      *)
(* chosen in Init, a run is one call.                                      *)
(***************************************************************************)
\* The strings of at most n character codes out of alphabet.
Strings(alphabet, n) == UNION {[1..k -> alphabet] : k \in 0..n}

\* {"device_id":"83AKMDA"}: under the key "k1" its checksum is 0.
ZeroSumReport ==
    <<123, 34, 100, 101, 118, 105, 99, 101, 95, 105, 100, 34, 58, 34,
      56, 51, 65, 75, 77, 68, 65, 34, 125>>

\* The messages verifyHMAC is given: dataString (part_001), message
\* (part_000).  97 is "a", 255 is the last one-byte code.
Messages == Strings({97, 255}, MaxMessageLen) \cup {ZeroSumReport}

\* The keys: strings of "k" and "1", the empty string for no key.
Keys == Strings({107, 49}, MaxKeyLen)

\* The strings that differ from s in exactly one character.
OneOff(s) ==
    {[s EXCEPT ![i] = c] : i \in 1..Len(s), c \in {98, 254}} \ {s}

\* The checksum of a message under a key, as the build's device sends it.
Checksum(v, bytes, key) ==
    IF v = "part_000" THEN Checksum000(bytes, key) ELSE Checksum001(bytes, key)

\* verifyHMAC of a build.
Verify(v, bytes, key, provided) ==
    IF v = "part_000" THEN Verify000(bytes, key, provided)
    ELSE Verify001(bytes, key, provided)

\* One call is examined in a run: calls do not depend on each other.
Only(c) ==
    /\ call = NoCall
    /\ call' = c
    /\ UNCHANGED <<config, now, tables, kind, payload, pc, local, oplog, errs,
                   answered, started, faults, hist>>

\* verifyHMAC(message, provided), where provided is the checksum of the
\* message signedMessage under the key signedKey: those of the call, or
\* one of them with one character changed.
VerifySigned ==
    \E m \in Messages :
        \E sm \in {m} \cup OneOff(m), sk \in {HMAC_KEY} \cup OneOff(HMAC_KEY) :
            /\ sm = m \/ sk = HMAC_KEY
            /\ Only([fn |-> "verifyHMAC",
                     args |-> [message |-> m, signedMessage |-> sm, signedKey |-> sk,
                               provided |-> Some(Checksum(variant, sm, sk))],
                     result |-> Verify(variant, m, HMAC_KEY,
                                       Some(Checksum(variant, sm, sk)))])

\* verifyHMAC(message, undefined)
VerifyUnsigned ==
    \E m \in Messages :
        Only([fn |-> "verifyHMAC",
              args |-> [message |-> m, signedMessage |-> <<>>, signedKey |-> <<>>,
                        provided |-> None],
              result |-> Verify(variant, m, HMAC_KEY, None)])

\* GET /health
GetHealth ==
    Only([fn |-> "health", args |-> <<>>, result |-> Health(HMAC_KEY, supabase)])

InitVerify ==
    /\ variant \in {"part_001", "part_000"}
    /\ HMAC_KEY \in Keys
    /\ supabase \in (IF variant = "part_001" THEN {TRUE} ELSE BOOLEAN)
    /\ Started

NextVerify == VerifySigned \/ VerifyUnsigned \/ GetHealth

SpecVerify == InitVerify /\ [][NextVerify]_vars

(***************************************************************************)
(* The computations of the handlers on their own: a run is one call.       *)
(***************************************************************************)
\* The grade letter of a build.
Grade(v, score) == IF v = "part_000" THEN Grade000(score) ELSE Grade001(score)

\* The grading of walk end, for one score.
GradeCall ==
    \E score \in 0..MaxScore :
        Only([fn |-> "grade", args |-> [score |-> score],
              result |-> Grade(variant, score)])

\* The durations walk end is given: absent, a few seconds, half a minute.
Seconds == {None} \cup {Some(n) : n \in 0..MaxSeconds} \cup {Some(30)}

\* The cheat bitmasks walk end is given.
CheatFlags == {None} \cup {Some(n) : n \in 0..MaxCheatFlags}

\* A percentage against the duration itself: nothing stands in for 0.
Percent_Unguarded(part, duration) ==
    [num |-> OrZero(part)[1] * 100, den |-> OrZero(duration)[1]]

\* part_000 lines 187-189: ((part || 0) / (duration_seconds || 1)) * 100, the
\* quotient kept as numerator and denominator.
Percent(part, duration) ==
    [num |-> OrZero(part)[1] * 100,
     den |-> IF Truthy(duration) THEN duration[1] ELSE 1]

\* flags & mask, for a mask of one bit: whether the bit is set.
HasBit(flags, mask) == (flags \div mask) % 2 = 1

\* part_000 lines 191-197: the labels pushed, in the order of the four ifs.
Pushed(flags) ==
    (IF HasBit(flags, 1) THEN <<"carrying_detected">> ELSE <<>>)
    \o (IF HasBit(flags, 2) THEN <<"vehicle_detected">> ELSE <<>>)
    \o (IF HasBit(flags, 4) THEN <<"excessive_stops">> ELSE <<>>)
    \o (IF HasBit(flags, 8) THEN <<"leash_only">> ELSE <<>>)

\* Array.prototype.join: the pieces of the joined string, <<>> for ''.
RECURSIVE Join(_, _)
Join(labels, sep) ==
    IF Len(labels) <= 1 THEN labels
    ELSE <<Head(labels), sep>> \o Join(Tail(labels), sep)

\* A summary that is the empty string when no label was pushed.
CheatSummary_NeverNull(flags) == Some(Join(Pushed(flags), ", "))

\* part_000 line 220: cheatSummary.join(', ') || null
CheatSummary(flags) ==
    IF Join(Pushed(flags), ", ") = <<>> THEN None
    ELSE Some(Join(Pushed(flags), ", "))

\* A flag raised by any cheat bit.
VehicleDetected_AnyFlag(flags) == flags # 0

\* part_000 line 215: (flags & 0x02) !== 0
VehicleDetected(flags) == HasBit(flags, 2)

\* part_000 lines 186-220: the anti-cheat fields of the session walk end
\* inserts.
AntiCheat(wd) ==
    [carried_seconds |-> OrZero(wd.carried_seconds)[1],
     carried_percent |-> Percent(wd.carried_seconds, wd.duration_seconds),
     actual_walk_seconds |-> OrZero(wd.actual_walk_seconds)[1],
     actual_walk_percent |-> Percent(wd.actual_walk_seconds, wd.duration_seconds),
     vehicle_detected |-> VehicleDetected(OrZero(wd.cheat_flags)[1]),
     cheat_flags |-> OrZero(wd.cheat_flags)[1],
     cheat_summary |-> CheatSummary(OrZero(wd.cheat_flags)[1])]

\* The anti-cheat computations of walk end, for one request body.
AntiCheatCall ==
    /\ variant = "part_000"
    /\ \E d \in Seconds, c \in Seconds, a \in Seconds, f \in CheatFlags :
          LET wd == [duration_seconds |-> d, carried_seconds |-> c,
                     actual_walk_seconds |-> a, cheat_flags |-> f]
          IN  Only([fn |-> "antiCheat", args |-> wd, result |-> AntiCheat(wd)])

\* What a report carries in a numeric field and in a boolean field: nothing,
\* the falsy value, or another value.
RawNumbers == {None, Some(0), Some(7)}
RawFlags == {None, Some(FALSE), Some(TRUE)}

\* flag || false
OrFalse(o) == IF o = None THEN Some(FALSE) ELSE o

\* The record POST /telemetry builds for device_status, column by column.
\* part_001 lines 155-219: || null, || 0, || false, ?? true, ?? false;
\* part_000 lines 72-119: the fields of the flat body as they are (an absent
\* one is undefined).  null and undefined are both None.
StatusRecord(v, raw) ==
    IF v = "part_001"
    THEN [latitude |-> OrNull(raw.latitude), speed |-> OrNull(raw.speed),
          battery_percent |-> OrNull(raw.battery_percent),
          satellites |-> OrZero(raw.satellites),
          walk_duration |-> OrZero(raw.walk_duration),
          gps_valid |-> OrFalse(raw.gps_valid),
          is_home |-> IF raw.is_home = None THEN Some(TRUE) ELSE raw.is_home,
          is_escaped |-> IF raw.is_escaped = None THEN Some(FALSE) ELSE raw.is_escaped]
    ELSE [latitude |-> raw.latitude, speed |-> raw.speed,
          battery_percent |-> raw.battery_percent,
          satellites |-> raw.satellites,
          walk_duration |-> raw.walk_duration,
          gps_valid |-> raw.gps_valid,
          is_home |-> raw.is_home,
          is_escaped |-> raw.is_escaped]

\* The status record of one raw report.
StatusRecordCall ==
    \E lat \in RawNumbers, speed \in RawNumbers, battery \in RawNumbers,
       sat \in RawNumbers, dur \in RawNumbers,
       valid \in RawFlags, home \in RawFlags, escaped \in RawFlags :
        LET raw == [latitude |-> lat, speed |-> speed, battery_percent |-> battery,
                    satellites |-> sat, walk_duration |-> dur, gps_valid |-> valid,
                    is_home |-> home, is_escaped |-> escaped]
        IN  Only([fn |-> "statusUpdate", args |-> raw,
                  result |-> StatusRecord(variant, raw)])

InitGrade == Init /\ variant # "index" /\ HMAC_KEY = <<>> /\ supabase

NextGrade == GradeCall \/ AntiCheatCall \/ StatusRecordCall

SpecGrade == InitGrade /\ [][NextGrade]_vars

TypeOK ==
    /\ variant \in Variants
    /\ now \in 0..MaxNow
    /\ started \in 0..Max(MaxRequests, MaxWalkRequests)
    /\ faults \in 0..MaxFaults
    /\ answered.code \in {0, 200, 400, 401, 404, 500}

(***************************************************************************)
(* Properties of POST /telemetry.                                          *)
(***************************************************************************)
\* The last response was to a telemetry report.
Reported == answered.kind = "telemetry" /\ answered.code # 0

\* The last response was to a report that passed the device-id validation
\* and the signature verification.
Passed ==
    /\ Reported
    /\ answered.payload.device_id # NULL
    /\ SignatureAccepted(variant, answered.payload, HMAC_KEY)

\* C1: with a key configured, a report that carries no signature field is
\* answered 401 and nothing of it is stored (builds part_001 and part_000,
\* store reachable).
C1_UnsignedRejected ==
    (/\ Reported
     /\ variant \in {"part_001", "part_000"}
     /\ HMAC_KEY # <<>>
     /\ supabase
     /\ ~answered.threw
     /\ answered.payload.device_id # NULL
     /\ answered.payload.signature = None)
    => (answered.code = 401 /\ answered.oplog = <<>>)

\* C2: a report answered 400 or 401 made no store call at all.
C2_RejectedTouchesNothing ==
    (Reported /\ answered.code \in {400, 401}) => answered.oplog = <<>>

\* A report with a wrong signature was answered 401 after another report had
\* been stored.
C2_Witness ==
    /\ Reported
    /\ answered.code = 401
    /\ answered.payload.signature # None
    /\ device_status # {}

C4_Owed(p, loc) ==
    <<"status_upsert">>
    \o (IF p.gps.valid /\ Truthy(p.gps.lat) /\ Truthy(p.gps.lon)
        THEN <<"location_insert">> ELSE <<>>)
    \o (IF p.scratch.detected
        THEN <<"scratch_insert", "scratch_daily_upsert">> ELSE <<>>)
    \o (IF p.health.anomaly
        THEN <<"anomaly_lookup">>
             \o (IF loc.existing \in {None, Some(0)}
                 THEN <<"anomaly_insert">> ELSE <<>>)
        ELSE <<>>)

C5_Order ==
    <<"status_upsert", "location_insert", "scratch_insert", "scratch_daily_upsert",
      "anomaly_lookup", "anomaly_insert">>

C5_InOrder(ops) ==
    \A i, j \in 1..Len(ops) :
        i < j => IndexOf(C5_Order, ops[i]) < IndexOf(C5_Order, ops[j])

\* C5: in part_001 the store calls of one report are made one at a time in
\* the order status upsert, location insert, scratch insert, scratch-daily
\* upsert, anomaly lookup, anomaly insert: the call awaited comes after all
\* the calls made, and the 200 response comes after the last call owed.
C5_FixedOrder ==
    variant = "part_001" =>
        /\ \A r \in Slots :
              Active(r) => C5_InOrder(Append(oplog[r], pc[r]))
        /\ Reported => C5_InOrder(answered.oplog)
        /\ (Reported /\ answered.code = 200) =>
              \A i \in 1..Len(C4_Owed(answered.payload, answered.local)) :
                 \E j \in 1..Len(answered.oplog) :
                    answered.oplog[j] = C4_Owed(answered.payload, answered.local)[i]

\* A report with a fix, a scratch and a new anomaly was answered after all
\* six store calls.
C5_Witness ==
    /\ variant = "part_001"
    /\ Reported
    /\ answered.code = 200
    /\ answered.oplog = C5_Order

(***************************************************************************)
(* Properties of the stored rows.                                          *)
(***************************************************************************)
\* C6: whatever telemetry requests ran and however they interleaved,
\* device_status holds exactly one row for every device id with a status
\* upsert that succeeded, and no row for any other.
C6_OneStatusRowPerDevice ==
    \A d \in Devices :
        Cardinality({o \in device_status : o.device_id = d})
            = (IF d \in hist.upserted THEN 1 ELSE 0)

\* Two reports of device d1 overlapped and both upserted its status: the one
\* answered reported no anomaly, the row is that of the one that did.
C6_Witness ==
    /\ hist.overlap
    /\ faults = 0
    /\ Reported
    /\ answered.code = 200
    /\ answered.payload.device_id = "d1"
    /\ ~answered.payload.health.anomaly
    /\ \E o \in device_status : o.device_id = "d1" /\ o.anomaly_detected = Some(TRUE)

\* The anomaly_log rows of device d and anomaly type t detected on day.
LoggedOn(d, t, day) ==
    {i \in 1..Len(anomaly_log) :
        /\ anomaly_log[i].device_id = d
        /\ anomaly_log[i].anomaly_type = t
        /\ DateOf(anomaly_log[i].detected_at) = day}

\* C7: when anomaly reports are processed one after the other and no store
\* call fails, anomaly_log holds at most one row per device id, anomaly type
\* and calendar day (builds part_001 and part_000).
C7_OneEntryPerDay ==
    (/\ variant \in {"part_001", "part_000"}
     /\ ~hist.overlap
     /\ faults = 0)
    => \A d \in Devices, day \in 0..DateOf(MaxNow) :
           Cardinality(LoggedOn(d, "low_activity", day)) <= 1

\* C8: in part_001 an anomaly insert that the store accepts adds a row
\* whatever anomaly_log holds by then: the lookup's answer is not checked
\* again.
C8_InsertNotRechecked ==
    [][\A r \in Slots :
          (/\ variant = "part_001"
           /\ pc[r] = "anomaly_insert"
           /\ pc'[r] # "anomaly_insert"
           /\ faults' = faults)
          => Len(anomaly_log') = Len(anomaly_log) + 1]_vars

\* In part_001, with no lookup failed, two rows for one device id, anomaly
\* type and calendar day.
C8_Witness ==
    /\ variant = "part_001"
    /\ ~hist.lookupFailed
    /\ faults = 0
    /\ \E day \in 0..DateOf(MaxNow) :
          Cardinality(LoggedOn("d1", "low_activity", day)) = 2

(***************************************************************************)
(* Properties of the walk routes.                                          *)
(***************************************************************************)
\* What finalizing a walk session writes.
Finalization(w) ==
    <<w.ended_at, w.duration_seconds, w.distance_meters, w.stop_count, w.grade,
      w.grade_score>>

\* C9: once a walk session is ended, no later request changes its end
\* timestamp, duration, distance, stop count, grade or score.
C9_FinalizedOnce ==
    [][\A i \in 1..Len(walk_sessions) :
          walk_sessions[i].ended_at # None
          => Finalization(walk_sessions'[i]) = Finalization(walk_sessions[i])]_vars

\* C10: a walk-end naming a walk id that no walk session has is answered 404
\* and writes nothing (store reachable).
C10_UnknownWalkNotFound ==
    (/\ answered.kind = "walk_end"
     /\ answered.code # 0
     /\ supabase
     /\ ~answered.threw
     /\ answered.errs = {}
     /\ answered.payload.walk_id > Len(walk_sessions))
    => /\ answered.code = 404
       /\ \A i \in 1..Len(answered.oplog) : answered.oplog[i] \notin Writes

\* C11: a walk start that is answered 200 and whose store calls all
\* succeeded adds exactly one walk session, and changes nothing else: the
\* session is of the path's device, has a start timestamp, no end timestamp
\* and no grade, starts at the latitude and longitude of the device's
\* device_status row (null when the device has none), and its id is the
\* walk_id of the response.
C11_WalkStartInserts ==
    [][\A r \in Slots :
          (/\ pc[r] = "walk_start_insert"
           /\ pc'[r] = "idle"
           /\ answered'.code = 200
           /\ answered'.errs = {})
          => LET d == payload[r].device_id
                 n == Len(walk_sessions)
                 w == walk_sessions'[n + 1]
             IN  /\ Len(walk_sessions') = n + 1
                 /\ SubSeq(walk_sessions', 1, n) = walk_sessions
                 /\ w.device_id = d
                 /\ w.started_at = Some(now)
                 /\ w.ended_at = None
                 /\ w.grade = NULL
                 /\ \A o \in device_status :
                       o.device_id = d =>
                          w.start_lat = o.latitude /\ w.start_lon = o.longitude
                 /\ (\A o \in device_status : o.device_id # d) =>
                       w.start_lat = None /\ w.start_lon = None
                 /\ answered'.local.data = Some(n + 1)
                 /\ UNCHANGED <<device_status, locations, scratch_events,
                                scratch_daily, anomaly_log>>]_vars

\* A walk was started for a device whose status row has a position, and the
\* session starts there.
C11_Witness ==
    /\ answered.kind = "walk_start"
    /\ answered.code = 200
    /\ answered.errs = {}
    /\ answered.local.data = Some(Len(walk_sessions))
    /\ walk_sessions[Len(walk_sessions)].start_lat = Some(12)
    /\ walk_sessions[Len(walk_sessions)].start_lon = Some(77)
    /\ walk_sessions[Len(walk_sessions)].ended_at = None

(***************************************************************************)
(* Properties of verifyHMAC.                                               *)
(***************************************************************************)
\* C12: when no key is configured, verifyHMAC returns true whatever the
\* message and whatever signature is provided (none, the message's checksum,
\* another message's checksum), and GET /health reports hmac as disabled;
\* it reports disabled only then.
C12_NoKeyAcceptsAll ==
    /\ (call.fn = "verifyHMAC" /\ HMAC_KEY = <<>>) => call.result = TRUE
    /\ call.fn = "health" =>
          (call.result.hmac = "disabled" <=> HMAC_KEY = <<>>)

\* Without a key, verifyHMAC returned true for a signature that is the
\* checksum of another message.
C12_Witness ==
    /\ HMAC_KEY = <<>>
    /\ call.fn = "verifyHMAC"
    /\ call.args.provided # None
    /\ call.args.signedMessage # call.args.message
    /\ call.result = TRUE

\* C13: when a key is configured, verifyHMAC returns true for a signature
\* that is the checksum of the payload's message and the key, and false for
\* a signature that is the checksum of a message or of a key differing from
\* them in exactly one byte.
C13_VerifiesChecksum ==
    (call.fn = "verifyHMAC" /\ HMAC_KEY # <<>> /\ call.args.provided # None) =>
        (call.result <=> /\ call.args.signedMessage = call.args.message
                         /\ call.args.signedKey = HMAC_KEY)

\* The reference recurrence h_i = (33 * h_(i-1) + byte_i) mod 2^32 with
\* h_0 = 5381, on 16-bit halves: the hash of the first n bytes.
C14_RefStep(h, b) ==
    LET lo == 33 * h[2] + b
        hi == 33 * h[1] + lo \div Word
    IN  <<hi % Word, lo % Word>>

RECURSIVE C14_RefHash(_, _)
C14_RefHash(bytes, n) ==
    IF n = 0 THEN <<0, 5381>>
    ELSE CHOOSE r \in {C14_RefStep(h, bytes[n]) : h \in {C14_RefHash(bytes, n - 1)}} : TRUE

\* The value of hash in part_001 after n passes over the message and the key.
HashAfter001(m, k, n) ==
    IF n <= Len(m) THEN Djb2(<<0, 5381>>, SubSeq(m, 1, n), 1)
    ELSE Checksum001(m, SubSeq(k, 1, n - Len(m)))

\* The value of hash in part_000 after n passes over message + key.
HashAfter000(m, k, n) == Djb2Signed(5381, SubSeq(m \o k, 1, n), 1)

\* C14: for every message and key of the bounded sets, the hash after each
\* pass equals the reference recurrence over the message bytes then the key
\* bytes, and is a value of 0..2^32-1; part_000's signed hash has the same
\* 32 bits after each pass, and its result after the unsigned conversion is
\* the hex form of part_001's result.
C14_ChecksumIsReference ==
    call.fn = "verifyHMAC" =>
        LET m == call.args.message
            k == HMAC_KEY
        IN  /\ \A n \in 0..(Len(m) + Len(k)) :
                 /\ HashAfter001(m, k, n) = C14_RefHash(m \o k, n)
                 /\ HashAfter001(m, k, n) \in (0..(Word - 1)) \X (0..(Word - 1))
                 /\ ToUint32(HashAfter000(m, k, n)) = C14_RefHash(m \o k, n)
            /\ Checksum001(m, k) = C14_RefHash(m \o k, Len(m) + Len(k))
            /\ Checksum000(m, k) = Hex8(Checksum001(m, k))

\* verifyHMAC ran on a 23-byte message and a 2-byte key whose hash wrapped
\* around to 0, with a negative intermediate value in part_000.
C14_Witness ==
    /\ call.fn = "verifyHMAC"
    /\ call.args.message = ZeroSumReport
    /\ HMAC_KEY = KeyBytes
    /\ Checksum001(ZeroSumReport, KeyBytes) = <<0, 0>>
    /\ \E n \in 1..Len(ZeroSumReport) : HashAfter000(ZeroSumReport, KeyBytes, n) < 0

(***************************************************************************)
(* Properties of the telemetry pipeline.                                   *)
(***************************************************************************)
\* C15: POST /telemetry answers 400 exactly when the report has no device
\* id: a report without one is answered 400 whatever its signature (the
\* check precedes the verification), and a report with one is never answered
\* 400, whatever else it lacks.
C15_MissingIdOnly ==
    Reported => (answered.code = 400 <=> answered.payload.device_id = NULL)

\* With a key configured, a report without device id that carried a wrong
\* signature was answered 400, after a report with a device id had been
\* stored.
C15_Witness ==
    /\ Reported
    /\ HMAC_KEY # <<>>
    /\ answered.code = 400
    /\ answered.payload.signature # None
    /\ ~SignatureAccepted(variant, answered.payload, HMAC_KEY)
    /\ device_status # {}

\* The last response was 200 to a delivered report: every step of the
\* handler was reached.
Stored == Reported /\ answered.code = 200

\* The handler of the last response made the store call `step`.
Called(step) == \E i \in 1..Len(answered.oplog) : answered.oplog[i] = step

\* C16: for every accepted report, the location insert is made when the fix
\* has the valid flag set, a non-null latitude and a non-null longitude, and
\* is not made otherwise.
C16_LocationIffValidFix ==
    Stored =>
        (Called("location_insert") <=>
            /\ answered.payload.gps.valid
            /\ answered.payload.gps.lat # None
            /\ answered.payload.gps.lon # None)

\* Request r is a second delivery to part_001 of the report that was stored
\* last.
Redelivery(r) ==
    /\ variant = "part_001"
    /\ Active(r)
    /\ kind[r] = "telemetry"
    /\ Stored
    /\ payload[r] = answered.payload

\* C17: the second delivery of a stored report adds no DeviceStatus row, no
\* ScratchDaily row and no AnomalyLog row; it makes the location insert when
\* the fix is valid (flag set, latitude and longitude not null) and the
\* scratch-event insert when scratch is detected, and each adds a row.
C17_DuplicateDelivery ==
    [][\A r \in Slots : Redelivery(r) =>
          /\ Cardinality(device_status') = Cardinality(device_status)
          /\ Cardinality(scratch_daily') = Cardinality(scratch_daily)
          /\ Len(anomaly_log') = Len(anomaly_log)
          /\ (pc[r] = "location_insert" /\ pc'[r] # pc[r])
             => Len(locations') = Len(locations) + 1
          /\ (pc[r] = "scratch_insert" /\ pc'[r] # pc[r])
             => Len(scratch_events') = Len(scratch_events) + 1
          /\ (pc'[r] = "idle" /\ answered'.code = 200) =>
                /\ (/\ payload[r].gps.valid
                    /\ payload[r].gps.lat # None
                    /\ payload[r].gps.lon # None)
                   => \E i \in 1..Len(answered'.oplog) :
                          answered'.oplog[i] = "location_insert"
                /\ payload[r].scratch.detected
                   => \E i \in 1..Len(answered'.oplog) :
                          answered'.oplog[i] = "scratch_insert"]_vars

(***************************************************************************)
(* Properties of concurrent telemetry requests.                            *)
(***************************************************************************)
\* The status upsert of request r returns in this step, without an error.
Upserts(r) == pc[r] = "status_upsert" /\ pc'[r] # pc[r] /\ faults' = faults

\* C18: in part_001, whatever requests are in flight, a status upsert
\* that succeeds leaves the device's row equal, field for field, to
\* the status record of its own report and leaves the rows of other devices
\* alone, and no other step of any request changes device_status: after two
\* concurrent requests the row is the record of the upsert that ran last.
C18_LastUpsertWins ==
    [][variant = "part_001" =>
          /\ \A r \in Slots : Upserts(r) =>
                /\ StatusOf(device_status', payload[r].device_id)
                      = Some(StatusUpdate(variant, payload[r]))
                /\ \A d \in Devices \ {payload[r].device_id} :
                      StatusOf(device_status', d) = StatusOf(device_status, d)
          /\ (\A r \in Slots : ~Upserts(r)) => device_status' = device_status]_vars

\* Two requests of device d1 overlapped and both are answered, no store call
\* failed, and the row of d1 is not the record of the request answered last:
\* the other request's upsert ran after it.
C18_Witness ==
    /\ variant = "part_001"
    /\ hist.overlap
    /\ faults = 0
    /\ started = 2
    /\ \A r \in Slots : ~Active(r)
    /\ answered.code = 200
    /\ answered.payload.device_id = "d1"
    /\ StatusOf(device_status, "d1") # None
    /\ StatusOf(device_status, "d1") # Some(StatusUpdate(variant, answered.payload))
    /\ StatusOf(device_status, "d2") = None

(***************************************************************************)
(* Properties of the scratch aggregate.                                    *)
(***************************************************************************)
\* The scratch-daily upsert of request r returns in this step, without an
\* error.
UpsertsDaily(r) ==
    pc[r] = "scratch_daily_upsert" /\ pc'[r] # pc[r] /\ faults' = faults

\* C19: in part_001 scratch_daily never holds two rows of one device and
\* date; a scratch-daily upsert that succeeds leaves, for the device and the
\* current date, the row with the total count and the frequency of its own
\* report (the stored values are overwritten, nothing is added to them), and
\* no other step changes scratch_daily.
C19_DailyOverwritten ==
    [][variant = "part_001" =>
          /\ \A a, b \in scratch_daily' :
                (a.device_id = b.device_id /\ a.date = b.date) => a = b
          /\ \A r \in Slots : UpsertsDaily(r) =>
                ScratchDaily(payload[r], DateOf(now)) \in scratch_daily'
          /\ (\A r \in Slots : ~UpsertsDaily(r)) => scratch_daily' = scratch_daily]_vars

\* Two scratch reports of d1 were stored on one day, the second with a
\* higher count and a lower frequency: the day's only row holds the second
\* report's values.
C19_Witness ==
    /\ variant = "part_001"
    /\ Len(scratch_events) = 2
    /\ scratch_events[1].frequency_hz = Scratch.frequency
    /\ scratch_events[2].frequency_hz = ScratchAgain.frequency
    /\ scratch_daily = {ScratchDaily(Body("d1", StaleFix, ScratchAgain, NoHealth, NoWalk), 0)}

(***************************************************************************)
(* Properties of the walk grading.                                         *)
(***************************************************************************)
\* The walk-end update of request r returns in this step, and no store call
\* of the request returned an error.
EndsWalk(r) ==
    pc[r] = "walk_end_update" /\ pc'[r] # pc[r] /\ faults' = faults /\ errs[r] = {}

\* clamp(100 - 5 * stops - 20 * [duration < 900] - 15 * [distance < 500], 0, 100)
C20_Score(duration, distance, stops) ==
    LET raw == 100 - 5 * stops - (IF duration < 900 THEN 20 ELSE 0)
                   - (IF distance < 500 THEN 15 ELSE 0)
    IN  IF raw < 0 THEN 0 ELSE IF raw > 100 THEN 100 ELSE raw

\* C20: in part_001 a walk end whose store calls succeed stores on the session
\* the score clamp(100 - 5 * stops - 20 * [duration < 900]
\* - 15 * [distance < 500], 0, 100) of the walk counters of the path
\* device's device_status row (0 for a counter that is missing), a value of
\* 0..100.
C20_PenaltyScore ==
    [][\A r \in Slots : (variant = "part_001" /\ EndsWalk(r)) =>
          LET status == StatusOf(device_status, payload[r].device_id)
              w == walk_sessions'[payload[r].walk_id]
              score == C20_Score(Counter(status, "walk_duration"),
                                 Counter(status, "walk_distance"),
                                 Counter(status, "walk_stops"))
          IN  /\ w.grade_score = Some(score)
              /\ w.grade_score[1] \in 0..100
              /\ w.stop_count = Some(Counter(status, "walk_stops"))]_vars

\* A walk of 1000 s and 400 m with thirty stops was ended: its score is 0.
C20_Witness ==
    /\ variant = "part_001"
    /\ answered.kind = "walk_end"
    /\ answered.code = 200
    /\ answered.errs = {}
    /\ walk_sessions[answered.payload.walk_id].stop_count = Some(Dawdled.stops[1])
    /\ walk_sessions[answered.payload.walk_id].grade_score = Some(0)

\* C21: the grade letter is A for a score of 90 or more, B from 70 to 89,
\* C from 50 to 69 and F below 50, and the overwrites of part_001 and the
\* else-if chain of part_000 give the same letter for the same score.
C21_GradeLetters ==
    call.fn = "grade" =>
        LET score == call.args.score
        IN  /\ call.result = (CASE score >= 90 -> "A"
                                [] score >= 70 /\ score < 90 -> "B"
                                [] score >= 50 /\ score < 70 -> "C"
                                [] score < 50 -> "F")
            /\ Grade001(score) = Grade000(score)

\* part_001 graded the score 70, which its first overwrite makes a B and its
\* second leaves alone.
C21_Witness ==
    /\ variant = "part_001"
    /\ call.fn = "grade"
    /\ call.args.score = 70
    /\ call.result = "B"

\* What a field of the body counts for: 0 when it is absent.
C22_Given(o) == IF o = None THEN 0 ELSE o[1]

\* max(1, duration), an absent duration counting as 0.
C22_Floor(o) == IF C22_Given(o) >= 1 THEN C22_Given(o) ELSE 1

\* C22: the stored carried percentage is 100 * carriedSeconds /
\* max(1, totalDurationSeconds) and the stored actual-walk percentage is
\* 100 * actualWalkSeconds / max(1, totalDurationSeconds); the divisor is
\* never 0, a duration of 0 or an absent one counting as one second.
C22_Percentages ==
    call.fn = "antiCheat" =>
        LET wd == call.args
            carried == call.result.carried_percent
            actual == call.result.actual_walk_percent
        IN  /\ carried.den # 0
            /\ actual.den # 0
            /\ carried.num * C22_Floor(wd.duration_seconds)
                  = 100 * C22_Given(wd.carried_seconds) * carried.den
            /\ actual.num * C22_Floor(wd.duration_seconds)
                  = 100 * C22_Given(wd.actual_walk_seconds) * actual.den

\* Walk end was given 30 carried seconds over a duration of 0: the carried
\* percentage is 3000.
C22_Witness ==
    /\ call.fn = "antiCheat"
    /\ call.args.duration_seconds = Some(0)
    /\ call.args.carried_seconds = Some(30)
    /\ call.result.carried_percent = [num |-> 3000, den |-> 1]

\* Bit k of a bitmask is set.
C23_BitSet(flags, k) == flags % (2 ^ (k + 1)) >= 2 ^ k

C23_Labels == <<"carrying_detected", "vehicle_detected", "excessive_stops", "leash_only">>

\* C23: for every cheat bitmask (0 when the body carries none) the summary
\* is null when none of the bits 0..3 is set; otherwise it is the labels of
\* the set bits among bit 0 (carrying detected), bit 1 (vehicle detected),
\* bit 2 (excessive stops) and bit 3 (leash only), in that order, each two
\* separated by ", ".
C23_CheatSummary ==
    call.fn = "antiCheat" =>
        LET flags == C22_Given(call.args.cheat_flags)
            set == {k \in 0..3 : C23_BitSet(flags, k)}
            nth(j) == CHOOSE k \in set : Cardinality({l \in set : l < k}) = j - 1
            summary == call.result.cheat_summary
        IN  IF set = {} THEN summary = None
            ELSE /\ summary # None
                 /\ Len(summary[1]) = 2 * Cardinality(set) - 1
                 /\ \A j \in 1..Cardinality(set) :
                       summary[1][2 * j - 1] = C23_Labels[nth(j) + 1]
                 /\ \A j \in 1..(Cardinality(set) - 1) : summary[1][2 * j] = ", "

\* Walk end was given the bitmask 13: the summary names carrying, excessive
\* stops and leash only.
C23_Witness ==
    /\ call.fn = "antiCheat"
    /\ call.args.cheat_flags = Some(13)
    /\ call.result.cheat_summary =
          Some(<<"carrying_detected", ", ", "excessive_stops", ", ", "leash_only">>)

\* C24: in the session walk end stores, vehicle_detected is true exactly
\* when bit 1 of the stored cheat_flags is set, and exactly when the stored
\* cheat_summary contains the label vehicle_detected.
C24_VehicleConsistent ==
    call.fn = "antiCheat" =>
        LET stored == call.result
            named == /\ stored.cheat_summary # None
                     /\ \E i \in 1..Len(stored.cheat_summary[1]) :
                           stored.cheat_summary[1][i] = "vehicle_detected"
        IN  /\ stored.vehicle_detected <=> C23_BitSet(stored.cheat_flags, 1)
            /\ stored.vehicle_detected <=> named

\* A session was stored with the bitmask 6: the vehicle flag is true and the
\* summary names the vehicle and the stops.
C24_Witness ==
    /\ call.fn = "antiCheat"
    /\ call.result.cheat_flags = 6
    /\ call.result.vehicle_detected
    /\ call.result.cheat_summary = Some(<<"vehicle_detected", ", ", "excessive_stops">>)

(***************************************************************************)
(* Properties of the status record.                                        *)
(***************************************************************************)
C25_Columns ==
    {"latitude", "speed", "battery_percent", "satellites", "walk_duration",
     "gps_valid", "is_home", "is_escaped"}

\* The default of a column: null for an optional numeric field, 0 for a
\* counter, false for a flag, true for is_home.
C25_Default(f) ==
    CASE f \in {"latitude", "speed", "battery_percent"} -> None
      [] f \in {"satellites", "walk_duration"} -> Some(0)
      [] f \in {"gps_valid", "is_escaped"} -> Some(FALSE)
      [] f = "is_home" -> Some(TRUE)

\* C25: for every field that the raw report lacks, the status record holds
\* the field's default: null for optional numeric fields, 0 for counters,
\* false for gps_valid and is_escaped, true for is_home.
C25_AbsentGetsDefault ==
    call.fn = "statusUpdate" =>
        \A f \in C25_Columns :
            call.args[f] = None => call.result[f] = C25_Default(f)

\* C27: every field that the raw report carries is in the status record
\* with the value the report gave it, 0 and false included.
C27_PresentCarried ==
    call.fn = "statusUpdate" =>
        \A f \in C25_Columns :
            call.args[f] # None => call.result[f] = call.args[f]

(***************************************************************************)
(* Properties of a failed dedup lookup.                                    *)
(***************************************************************************)
\* C28: in part_001 a report whose dedup lookup returned an error value is
\* treated as not yet logged: the anomaly insert is attempted, whatever
\* anomaly_log holds.
C28_FailedLookupInserts ==
    (/\ variant = "part_001"
     /\ Reported
     /\ \E i \in 1..Len(answered.oplog) : answered.oplog[i] = "anomaly_lookup"
     /\ "anomaly_lookup" \in answered.errs)
    => Called("anomaly_insert")

\* Reports served one after the other: the second one's lookup failed and
\* its insert added a second row for the device, the type and the day.
C28_Witness ==
    /\ variant = "part_001"
    /\ ~hist.overlap
    /\ Stored
    /\ "anomaly_lookup" \in answered.errs
    /\ Cardinality(LoggedOn("d1", "low_activity", DateOf(now))) = 2

(***************************************************************************)
(* Properties of the walk routes.                                          *)
(***************************************************************************)
\* C26: a stored walk session changes only in a walk-end request whose path
\* names the session's device: a walk end for one device that names the
\* walk id of another device's session changes no field of that session.
C26_OwnSessionOnly ==
    [][\A i \in 1..Len(walk_sessions) :
          walk_sessions'[i] # walk_sessions[i] =>
              \E r \in Slots :
                  /\ kind[r] = "walk_end"
                  /\ Active(r)
                  /\ payload[r].device_id = walk_sessions[i].device_id]_vars

(***************************************************************************)
(* Properties of the responses.                                            *)
(***************************************************************************)
\* C29: every request is answered exactly once.  A request that arrives is
\* either answered in the same step or parked on a store call without a
\* response; a parked request sends nothing while it stays parked; the step
\* that ends it sends the one response of that request, with a status code;
\* and, every store call returning or throwing in the end, no request stays
\* parked: time and again every request received has been answered.
C29_OneResponse ==
    /\ [][/\ \A r \in Slots :
                /\ (pc[r] = "idle" /\ pc'[r] # "idle") =>
                      started' = started + 1 /\ answered' = answered
                /\ (pc[r] # "idle" /\ pc'[r] # "idle") => answered' = answered
                /\ (pc[r] # "idle" /\ pc'[r] = "idle") =>
                      /\ answered'.kind = kind[r]
                      /\ answered'.payload = payload[r]
                      /\ answered'.code \in {200, 400, 401, 404, 500}
                      /\ started' = started
          /\ (started' = started + 1 /\ pc' = pc) =>
                answered'.code \in {200, 400, 401, 404, 500}
          /\ started' \in {started, started + 1}]_vars
    /\ []<>(\A r \in Slots : pc[r] = "idle")

\* A request whose second store call threw was answered 500.
C29_Witness ==
    /\ answered.threw
    /\ answered.code = 500
    /\ Len(answered.oplog) >= 2

====
